---- MODULE Spec2Model ----
(***************************************************************************)
(* Model of the Ethiopian calendar engine of React-Ethiopian-Date-Picker   *)
(* (utils/ethiopianDateUtils.ts).  Every exported function is a pure       *)
(* function of its arguments; it is modelled as an operator that computes  *)
(* what the TypeScript computes, and the state machine below is a caller   *)
(* that starts from an Ethiopian date, calls the functions on it and on    *)
(* their results, and records what came back.                              *)
(*                                                                         *)
(* A JavaScript Date is modelled as the whole local calendar day it        *)
(* denotes: [year, month (0-based, as getMonth), date].  Strings are       *)
(* sequences of one-character strings.                                     *)
(*                                                                         *)
(* Three more state machines share the variables: FormatSpec calls the     *)
(* formatting functions, PickerSpec is the EthiopianDatePicker component   *)
(* under its user and its parent, and CalendarSpec is that component under *)
(* a user who only pages through the months.                               *)
(***************************************************************************)
EXTENDS Integers, Sequences, FiniteSets, TLC

(***************************************************************************)
(* Bounds of the exploration.                                              *)
(***************************************************************************)
\* number of consecutive Ethiopian years explored from each anchor year
YearSpan == 4
\* daysToAdd / yearsToAdd range over -MaxAdd..MaxAdd and a few long jumps
MaxAdd == 2

\* first years of the explored windows: the two ends of the validator's
\* range, the Gregorian centuries 1900 (not leap) and 2000 (leap), today
AnchorYears == {999, 1892, 1992, 2016, 2997}
Years == UNION {a..(a + YearSpan - 1) : a \in AnchorYears}
\* the shapes an EtDate argument takes, those the validator rejects included
EtInputs == [Day : 0..31, Month : 0..14, Year : Years]
\* the first day of every Ethiopian year from 1900 to 2090
NewYearDays == {[Day |-> 1, Month |-> 1, Year |-> y] : y \in 1900..2090}
\* the numbers of days or years a caller adds
Amounts == (-MaxAdd..MaxAdd) \cup {-1461, -366, 366}

(***************************************************************************)
(* JavaScript arithmetic and string primitives.                            *)
(***************************************************************************)
\* a % b of JavaScript for b > 0: the result has the sign of a
JsMod(a, b) == IF a >= 0 THEN a % b ELSE -((-a) % b)
\* Math.floor(a / b) for b > 0
Floor(a, b) == a \div b
Min(a, b) == IF a < b THEN a ELSE b

DigitChars == <<"0", "1", "2", "3", "4", "5", "6", "7", "8", "9">>
RECURSIVE NatToString(_)
NatToString(n) ==
  IF n < 10 THEN <<DigitChars[n + 1]>>
  ELSE NatToString(n \div 10) \o <<DigitChars[(n % 10) + 1]>>
\* `${n}` for an integer n
NumberToString(n) == IF n < 0 THEN <<"-">> \o NatToString(-n) ELSE NatToString(n)

(***************************************************************************)
(* Constants of the calendar.                                              *)
(***************************************************************************)
ETHIOPIAN_CALENDAR_OFFSET == 2431
ETHIOPIAN_DAYS_IN_MONTH == 30
ETHIOPIAN_LEAP_YEAR_DAYS == 6
ETHIOPIAN_NORMAL_YEAR_DAYS == 5

\* String(n).padStart(width, "0") for n >= 0
RECURSIVE PadStart(_, _)
PadStart(chars, width) ==
  IF Len(chars) >= width THEN chars ELSE PadStart(<<"0">> \o chars, width)
\* the text "YYYY-MM-DD" of a year, month and day
IsoText(year, month, day) ==
  PadStart(NumberToString(year), 4) \o <<"-">>
  \o PadStart(NumberToString(month), 2) \o <<"-">>
  \o PadStart(NumberToString(day), 2)

\* new EthiopianDate(Day, Month, Year)
EthiopianDate(Day, Month, Year) == [Day |-> Day, Month |-> Month, Year |-> Year]

\* new Date(year, monthIndex, day) for a day that exists in that month:
\* a year 0..99 is read as 1900 + year
NewDate(year, monthIndex, day) ==
  [year |-> IF year >= 0 /\ year <= 99 THEN 1900 + year ELSE year,
   month |-> monthIndex,
   date |-> day]

\* values of the other JavaScript types a loosely typed argument can have:
\* every value is a record, and its fields tell its type
Undefined == [undefined |-> TRUE]
StringValue(chars) == [str |-> chars]
NumberValue(n) == [num |-> n]
\* gregorianDate instanceof Date
IsDate(v) == "year" \in DOMAIN v
\* typeof v === "string", typeof v === "number"
IsString(v) == "str" \in DOMAIN v
IsNumber(v) == "num" \in DOMAIN v

\* new Error(message), thrown
Error(message) == [name |-> "Error", message |-> message]
Thrown(r) == "message" \in DOMAIN r

(***************************************************************************)
(* Leap years and month lengths.                                           *)
(***************************************************************************)
\* isEthiopianLeapYear with the phase of the Gregorian cycle
isEthiopianLeapYear_Divisible(year) == JsMod(year, 4) = 0

isEthiopianLeapYear(year) == JsMod(year, 4) = 3

\* getEthiopianMonthLength without the leap day
getEthiopianMonthLength_NoLeap(month, year) ==
  IF month = 13
  THEN ETHIOPIAN_NORMAL_YEAR_DAYS
  ELSE ETHIOPIAN_DAYS_IN_MONTH

getEthiopianMonthLength(month, year) ==
  IF month = 13
  THEN (IF isEthiopianLeapYear(year)
        THEN ETHIOPIAN_LEAP_YEAR_DAYS
        ELSE ETHIOPIAN_NORMAL_YEAR_DAYS)
  ELSE ETHIOPIAN_DAYS_IN_MONTH

isLeapYearGr(year) ==
  JsMod(year, 4) = 0 /\ (JsMod(year, 100) # 0 \/ JsMod(year, 400) = 0)

getGregorianMonthLength(index, year) ==
  IF index \in {1, 3, 5, 7, 8, 10, 12} THEN 31
  ELSE IF index = 2 THEN (IF isLeapYearGr(year) THEN 29 ELSE 28)
  ELSE 30

(***************************************************************************)
(* Day numbers of the Ethiopian calendar.                                  *)
(***************************************************************************)
getDayNumber(ethiopianDate) ==
  LET leapYearCycles == Floor(ethiopianDate.Year, 4)
      remainingYears == JsMod(ethiopianDate.Year, 4)
  IN  leapYearCycles * 1461 + remainingYears * 365
      + (ethiopianDate.Month - 1) * ETHIOPIAN_DAYS_IN_MONTH
      + ethiopianDate.Day - 1

\* createEthiopianDate without its branch for the sixth epagomenal day
createEthiopianDate_NoSixthDay(dayNumber) ==
  LET leapYearCycles == Floor(dayNumber, 1461)
      remainingDays == JsMod(dayNumber, 1461)
      yearsInCycle == Floor(remainingDays, 365)
      daysInYear == JsMod(remainingDays, 365)
  IN  EthiopianDate(JsMod(daysInYear, 30) + 1,
                    Floor(daysInYear, 30) + 1,
                    leapYearCycles * 4 + yearsInCycle)

createEthiopianDate(dayNumber) ==
  LET leapYearCycles == Floor(dayNumber, 1461)
      remainingDays == JsMod(dayNumber, 1461)
      yearsInCycle == Floor(remainingDays, 365)
      daysInYear == JsMod(remainingDays, 365)
  IN  IF remainingDays # 1460
      THEN EthiopianDate(JsMod(daysInYear, 30) + 1,
                         Floor(daysInYear, 30) + 1,
                         leapYearCycles * 4 + yearsInCycle)
      ELSE EthiopianDate(6, 13, leapYearCycles * 4 + yearsInCycle - 1)

(***************************************************************************)
(* Day numbers of the Gregorian calendar.                                  *)
(***************************************************************************)
\* the while loop that closes gregorianDateFromDayNo
RECURSIVE WalkMonths(_, _, _)
WalkMonths(dayNumber, month, year) ==
  LET daysInCurrentMonth == getGregorianMonthLength(month, year)
  IN  IF dayNumber <= daysInCurrentMonth
      THEN NewDate(year, month - 1, dayNumber)
      ELSE WalkMonths(dayNumber - daysInCurrentMonth, month + 1, year)

\* gregorianDateFromDayNo without the zero-remainder return at the level of
\* single years
gregorianDateFromDayNo_NoYearEnd(dayNumber) ==
  LET fourHundredYearPeriods == Floor(dayNumber, 146097)
      d1 == JsMod(dayNumber, 146097)
      hundredYearPeriods == Min(Floor(d1, 36524), 3)
      d2 == d1 - hundredYearPeriods * 36524
      fourYearPeriods == Floor(d2, 1461)
      d3 == JsMod(d2, 1461)
      singleYears == Min(Floor(d3, 365), 3)
      d4 == d3 - singleYears * 365
  IN  IF d1 = 0 THEN NewDate(400 * fourHundredYearPeriods, 12 - 1, 31)
      ELSE IF d2 = 0
        THEN NewDate(400 * fourHundredYearPeriods + 100 * hundredYearPeriods,
                     12 - 1, 31)
      ELSE IF d3 = 0
        THEN NewDate(400 * fourHundredYearPeriods + 100 * hundredYearPeriods
                       + 4 * fourYearPeriods, 12 - 1, 31)
      ELSE WalkMonths(d4, 1,
                      1 + 400 * fourHundredYearPeriods + 100 * hundredYearPeriods
                        + 4 * fourYearPeriods + singleYears)

\* gregorianDateFromDayNo without the cap of three 100-year periods in a
\* 400-year period
gregorianDateFromDayNo_NoCenturyCap(dayNumber) ==
  LET fourHundredYearPeriods == Floor(dayNumber, 146097)
      d1 == JsMod(dayNumber, 146097)
      hundredYearPeriods == Floor(d1, 36524)
      d2 == d1 - hundredYearPeriods * 36524
      fourYearPeriods == Floor(d2, 1461)
      d3 == JsMod(d2, 1461)
      singleYears == Min(Floor(d3, 365), 3)
      d4 == d3 - singleYears * 365
  IN  IF d1 = 0 THEN NewDate(400 * fourHundredYearPeriods, 12 - 1, 31)
      ELSE IF d2 = 0
        THEN NewDate(400 * fourHundredYearPeriods + 100 * hundredYearPeriods,
                     12 - 1, 31)
      ELSE IF d3 = 0
        THEN NewDate(400 * fourHundredYearPeriods + 100 * hundredYearPeriods
                       + 4 * fourYearPeriods, 12 - 1, 31)
      ELSE IF d4 = 0
        THEN NewDate(400 * fourHundredYearPeriods + 100 * hundredYearPeriods
                       + 4 * fourYearPeriods + singleYears, 12 - 1, 31)
      ELSE WalkMonths(d4, 1,
                      1 + 400 * fourHundredYearPeriods + 100 * hundredYearPeriods
                        + 4 * fourYearPeriods + singleYears)

gregorianDateFromDayNo(dayNumber) ==
  LET fourHundredYearPeriods == Floor(dayNumber, 146097)
      d1 == JsMod(dayNumber, 146097)
      hundredYearPeriods == Min(Floor(d1, 36524), 3)
      d2 == d1 - hundredYearPeriods * 36524
      fourYearPeriods == Floor(d2, 1461)
      d3 == JsMod(d2, 1461)
      singleYears == Min(Floor(d3, 365), 3)
      d4 == d3 - singleYears * 365
  IN  IF d1 = 0 THEN NewDate(400 * fourHundredYearPeriods, 12 - 1, 31)
      ELSE IF d2 = 0
        THEN NewDate(400 * fourHundredYearPeriods + 100 * hundredYearPeriods,
                     12 - 1, 31)
      ELSE IF d3 = 0
        THEN NewDate(400 * fourHundredYearPeriods + 100 * hundredYearPeriods
                       + 4 * fourYearPeriods, 12 - 1, 31)
      ELSE IF d4 = 0
        THEN NewDate(400 * fourHundredYearPeriods + 100 * hundredYearPeriods
                       + 4 * fourYearPeriods + singleYears, 12 - 1, 31)
      ELSE WalkMonths(d4, 1,
                      1 + 400 * fourHundredYearPeriods + 100 * hundredYearPeriods
                        + 4 * fourYearPeriods + singleYears)

RECURSIVE addGregorianMonths(_, _)
addGregorianMonths(month, year) ==
  IF month <= 1 THEN 0
  ELSE addGregorianMonths(month - 1, year)
       + getGregorianMonthLength(month - 1, year)

\* getGregorianDayNumber counting no leap day for the years divisible by 400
getGregorianDayNumber_No400(gregorianDate) ==
  IF ~IsDate(gregorianDate) THEN 0
  ELSE
  LET previousYears == gregorianDate.year - 1
      leapYears == Floor(previousYears, 4) - Floor(previousYears, 100)
      nonLeapYears == previousYears - leapYears
      daysInPreviousYears == leapYears * 366 + nonLeapYears * 365
      daysInCurrentYear ==
        addGregorianMonths(gregorianDate.month + 1, gregorianDate.year)
        + gregorianDate.date
  IN  daysInPreviousYears + daysInCurrentYear

\* getGregorianDayNumber answering a value that is no Date with the number of
\* the first day
getGregorianDayNumber_FirstDay(gregorianDate) ==
  IF ~IsDate(gregorianDate) THEN 1
  ELSE
  LET previousYears == gregorianDate.year - 1
      leapYears == Floor(previousYears, 4) - Floor(previousYears, 100)
                   + Floor(previousYears, 400)
      nonLeapYears == previousYears - leapYears
      daysInPreviousYears == leapYears * 366 + nonLeapYears * 365
      daysInCurrentYear ==
        addGregorianMonths(gregorianDate.month + 1, gregorianDate.year)
        + gregorianDate.date
  IN  daysInPreviousYears + daysInCurrentYear

\* what getGregorianDayNumber gives console.error
getGregorianDayNumberLog(gregorianDate) ==
  IF ~IsDate(gregorianDate)
  THEN <<[text |-> "Invalid date object:", value |-> gregorianDate]>>
  ELSE <<>>

getGregorianDayNumber(gregorianDate) ==
  IF ~IsDate(gregorianDate) THEN 0
  ELSE
  LET previousYears == gregorianDate.year - 1
      leapYears == Floor(previousYears, 4) - Floor(previousYears, 100)
                   + Floor(previousYears, 400)
      nonLeapYears == previousYears - leapYears
      daysInPreviousYears == leapYears * 366 + nonLeapYears * 365
      daysInCurrentYear ==
        addGregorianMonths(gregorianDate.month + 1, gregorianDate.year)
        + gregorianDate.date
  IN  daysInPreviousYears + daysInCurrentYear

(***************************************************************************)
(* The two conversions.                                                    *)
(***************************************************************************)
toEthiopian(gregorianDate) ==
  createEthiopianDate(getGregorianDayNumber(gregorianDate)
                      - ETHIOPIAN_CALENDAR_OFFSET)

\* toGregorian with an offset one day short
toGregorian_ShortOffset(ethiopianDate) ==
  gregorianDateFromDayNo(getDayNumber(ethiopianDate)
                         + ETHIOPIAN_CALENDAR_OFFSET - 1)

toGregorian(ethiopianDate) ==
  gregorianDateFromDayNo(getDayNumber(ethiopianDate) + ETHIOPIAN_CALENDAR_OFFSET)

(***************************************************************************)
(* Validation, arithmetic and comparison.                                  *)
(***************************************************************************)
\* isValidEthiopianDate taking the year to have twelve months
isValidEthiopianDate_TwelveMonths(ethiopianDate) ==
  IF ethiopianDate.Year < 1000 \/ ethiopianDate.Year > 3000 THEN FALSE
  ELSE IF ethiopianDate.Month < 1 \/ ethiopianDate.Month > 12 THEN FALSE
  ELSE IF ethiopianDate.Day < 1 THEN FALSE
  ELSE IF ethiopianDate.Day
          > getEthiopianMonthLength(ethiopianDate.Month, ethiopianDate.Year)
    THEN FALSE
  ELSE TRUE

isValidEthiopianDate(ethiopianDate) ==
  IF ethiopianDate.Year < 1000 \/ ethiopianDate.Year > 3000 THEN FALSE
  ELSE IF ethiopianDate.Month < 1 \/ ethiopianDate.Month > 13 THEN FALSE
  ELSE IF ethiopianDate.Day < 1 THEN FALSE
  ELSE IF ethiopianDate.Day
          > getEthiopianMonthLength(ethiopianDate.Month, ethiopianDate.Year)
    THEN FALSE
  ELSE TRUE

\* `Invalid Ethiopian date ${Day}-${Month}-${Year}`
InvalidDateMessage(ethiopianDate) ==
  <<"I", "n", "v", "a", "l", "i", "d", " ",
    "E", "t", "h", "i", "o", "p", "i", "a", "n", " ",
    "d", "a", "t", "e", " ">>
  \o NumberToString(ethiopianDate.Day) \o <<"-">>
  \o NumberToString(ethiopianDate.Month) \o <<"-">>
  \o NumberToString(ethiopianDate.Year)

\* addYearsToEthiopianDate without the clamp of the sixth epagomenal day
addYearsToEthiopianDate_NoClamp(ethiopianDate, yearsToAdd) ==
  IF ~isValidEthiopianDate(ethiopianDate)
  THEN Error(InvalidDateMessage(ethiopianDate))
  ELSE EthiopianDate(ethiopianDate.Day, ethiopianDate.Month,
                     ethiopianDate.Year + yearsToAdd)

\* addYearsToEthiopianDate clamping the sixth epagomenal day whatever the
\* target year
addYearsToEthiopianDate_AlwaysClamp(ethiopianDate, yearsToAdd) ==
  IF ~isValidEthiopianDate(ethiopianDate)
  THEN Error(InvalidDateMessage(ethiopianDate))
  ELSE LET newYear == ethiopianDate.Year + yearsToAdd
       IN  IF ethiopianDate.Month = 13 /\ ethiopianDate.Day = 6
           THEN EthiopianDate(5, ethiopianDate.Month, newYear)
           ELSE EthiopianDate(ethiopianDate.Day, ethiopianDate.Month, newYear)

addYearsToEthiopianDate(ethiopianDate, yearsToAdd) ==
  IF ~isValidEthiopianDate(ethiopianDate)
  THEN Error(InvalidDateMessage(ethiopianDate))
  ELSE LET newYear == ethiopianDate.Year + yearsToAdd
       IN  IF ethiopianDate.Month = 13 /\ ethiopianDate.Day = 6
              /\ ~isEthiopianLeapYear(newYear)
           THEN EthiopianDate(5, ethiopianDate.Month, newYear)
           ELSE EthiopianDate(ethiopianDate.Day, ethiopianDate.Month, newYear)

\* addDaysToEthiopianDate without the validation of its argument
addDaysToEthiopianDate_Unchecked(ethiopianDate, daysToAdd) ==
  createEthiopianDate(getDayNumber(ethiopianDate) + 1 + daysToAdd)

addDaysToEthiopianDate(ethiopianDate, daysToAdd) ==
  IF ~isValidEthiopianDate(ethiopianDate)
  THEN Error(InvalidDateMessage(ethiopianDate))
  ELSE createEthiopianDate(getDayNumber(ethiopianDate) + 1 + daysToAdd)

\* compareEthiopianDates looking at the day before the month
compareEthiopianDates_DayFirst(firstDate, secondDate) ==
  IF firstDate.Year < secondDate.Year THEN -1
  ELSE IF firstDate.Year > secondDate.Year THEN 1
  ELSE IF firstDate.Day < secondDate.Day THEN -1
  ELSE IF firstDate.Day > secondDate.Day THEN 1
  ELSE IF firstDate.Month < secondDate.Month THEN -1
  ELSE IF firstDate.Month > secondDate.Month THEN 1
  ELSE 0

compareEthiopianDates(firstDate, secondDate) ==
  IF firstDate.Year < secondDate.Year THEN -1
  ELSE IF firstDate.Year > secondDate.Year THEN 1
  ELSE IF firstDate.Month < secondDate.Month THEN -1
  ELSE IF firstDate.Month > secondDate.Month THEN 1
  ELSE IF firstDate.Day < secondDate.Day THEN -1
  ELSE IF firstDate.Day > secondDate.Day THEN 1
  ELSE 0

(***************************************************************************)
(* dateConverter: the entry points that take loosely typed arguments.      *)
(***************************************************************************)
\* ethiopianDate.split("-"): the pieces between the dashes, empty ones kept
RECURSIVE Split(_)
Split(chars) ==
  IF \A i \in 1..Len(chars) : chars[i] # "-" THEN <<chars>>
  ELSE LET i == CHOOSE k \in 1..Len(chars) :
                  chars[k] = "-" /\ \A j \in 1..(k - 1) : chars[j] # "-"
       IN  <<SubSeq(chars, 1, i - 1)>> \o Split(SubSeq(chars, i + 1, Len(chars)))

\* the number a string of decimal digits denotes
RECURSIVE DigitsToNat(_)
DigitsToNat(chars) ==
  IF chars = <<>> THEN 0
  ELSE DigitsToNat(SubSeq(chars, 1, Len(chars) - 1)) * 10
       + (CHOOSE d \in 0..9 : DigitChars[d + 1] = chars[Len(chars)])

\* Number(token) for a token of digits and letters: the empty string is 0,
\* digits are their number, anything else is NaN
NaN == [nan |-> TRUE, n |-> 0]
Number(token) ==
  IF \A i \in 1..Len(token) : \E d \in 1..10 : DigitChars[d] = token[i]
  THEN [nan |-> FALSE, n |-> DigitsToNat(token)]
  ELSE NaN

\* const [year, monthStr, dayStr] = tokens.map(Number): the i-th element, or
\* undefined past the end; undefined and NaN are both falsy and both isNaN
Destructure(tokens, i) ==
  IF i <= Len(tokens) THEN Number(tokens[i]) ELSE NaN
\* !x || isNaN(x)
FalsyOrNaN(x) == x.nan \/ x.n = 0

InvalidStringMessage(chars) ==
  <<"I", "n", "v", "a", "l", "i", "d", " ", "E", "t", "h", "i", "o", "p",
  "i", "a", "n", " ", "d", "a", "t", "e", " ", "s", "t", "r", "i", "n",
  "g", ":", " ">>
  \o chars
  \o <<".", " ", "E", "x", "p", "e", "c", "t", "e", "d", " ", "f", "o", "r",
     "m", "a", "t", ":", " ", "\"", "Y", "Y", "Y", "Y", "-", "M", "M", "-",
     "D", "D", "\"">>
InvalidPartsMessage(day, month, year) ==
  <<"I", "n", "v", "a", "l", "i", "d", " ", "E", "t", "h", "i", "o", "p",
  "i", "a", "n", " ", "d", "a", "t", "e", ":", " ">>
  \o NumberToString(day) \o <<"-">> \o NumberToString(month) \o <<"-">>
  \o NumberToString(year)
InvalidParametersMessage ==
  <<"I", "n", "v", "a", "l", "i", "d", " ", "p", "a", "r", "a", "m", "e",
  "t", "e", "r", "s", " ", "f", "o", "r", " ", "t", "o", "G", "r", "e",
  "g", "o", "r", "i", "a", "n", ".", " ", "E", "x", "p", "e", "c", "t",
  "e", "d", ":", " ", "(", "s", "t", "r", "i", "n", "g", " ", "|", " ",
  "n", "u", "m", "b", "e", "r", ",", " ", "n", "u", "m", "b", "e", "r",
  "?", ",", " ", "n", "u", "m", "b", "e", "r", "?", ")", " ", "o", "r",
  " ", "E", "t", "h", "i", "o", "p", "i", "a", "n", "D", "a", "t", "e",
  "C", "o", "n", "v", "e", "r", "t", "e", "r">>

\* new EthiopianDateConverter(...) as a value; ethiopianDate instanceof
\* EthiopianDateConverter
Converter(e) == [ethiopianDate |-> e]
IsConverter(v) == "ethiopianDate" \in DOMAIN v

\* dateConverter.toGregorian with missing month and day read as 1
dateConverterToGregorian_DefaultParts(first, month, day) ==
  IF IsConverter(first) THEN toGregorian(first.ethiopianDate)
  ELSE IF IsString(first)
  THEN LET tokens == Split(first.str)
           year == Destructure(tokens, 1)
           monthStr == Destructure(tokens, 2)
           dayStr == Destructure(tokens, 3)
       IN  IF FalsyOrNaN(year) \/ FalsyOrNaN(monthStr) \/ FalsyOrNaN(dayStr)
           THEN Error(InvalidStringMessage(first.str))
           ELSE toGregorian(EthiopianDate(dayStr.n, monthStr.n, year.n))
  ELSE IF IsNumber(first)
  THEN LET m == IF IsNumber(month) THEN month.num ELSE 1
           d == IF IsNumber(day) THEN day.num ELSE 1
       IN  IF ~isValidEthiopianDate(EthiopianDate(d, m, first.num))
           THEN Error(InvalidPartsMessage(d, m, first.num))
           ELSE toGregorian(EthiopianDate(d, m, first.num))
  ELSE Error(InvalidParametersMessage)

\* dateConverter.toGregorian(ethiopianDate, month, day); the first argument
\* is called first here, since ethiopianDate names the caller's date
dateConverterToGregorian(first, month, day) ==
  IF IsConverter(first) THEN toGregorian(first.ethiopianDate)
  ELSE IF IsString(first)
  THEN LET tokens == Split(first.str)
           year == Destructure(tokens, 1)
           monthStr == Destructure(tokens, 2)
           dayStr == Destructure(tokens, 3)
       IN  IF FalsyOrNaN(year) \/ FalsyOrNaN(monthStr) \/ FalsyOrNaN(dayStr)
           THEN Error(InvalidStringMessage(first.str))
           ELSE toGregorian(EthiopianDate(dayStr.n, monthStr.n, year.n))
  ELSE IF IsNumber(first) /\ IsNumber(month) /\ IsNumber(day)
  THEN IF ~isValidEthiopianDate(EthiopianDate(day.num, month.num, first.num))
       THEN Error(InvalidPartsMessage(day.num, month.num, first.num))
       ELSE toGregorian(EthiopianDate(day.num, month.num, first.num))
  ELSE Error(InvalidParametersMessage)

\* new Date(text) read through getFullYear, getMonth and getDate, for a text
\* "YYYY-MM-DD" that names a real day: the text is midnight UTC of that day,
\* which west of UTC is still the evening before
DateOfText(chars, zone) ==
  LET tokens == Split(chars)
      utc == [year |-> DigitsToNat(tokens[1]),
              month |-> DigitsToNat(tokens[2]) - 1,
              date |-> DigitsToNat(tokens[3])]
  IN  IF zone = "west"
      THEN gregorianDateFromDayNo(getGregorianDayNumber(utc) - 1)
      ELSE utc

\* new EthiopianDateConverter(date, month, day) on a host in time zone zone
\* whose clock, new Date(), reads the day now
EthiopianDateConverter(date, month, day, zone, now) ==
  IF IsString(date) THEN Converter(toEthiopian(DateOfText(date.str, zone)))
  ELSE IF IsDate(date) THEN Converter(toEthiopian(date))
  ELSE IF IsNumber(date) /\ IsNumber(month) /\ IsNumber(day)
  THEN Converter(EthiopianDate(day.num, month.num, date.num))
  ELSE Converter(toEthiopian(now))

\* dateConverter.toEthiopian(date)
dateConverterToEthiopian(date, zone, now) ==
  EthiopianDateConverter(date, Undefined, Undefined, zone, now)

(***************************************************************************)
(* Weekdays.                                                               *)
(***************************************************************************)
TimeZones == {"west", "UTC", "east"}

\* the weekday of a calendar day as the platform counts it, Sunday = 0
MonthKeys == <<0, 3, 2, 5, 0, 3, 5, 1, 4, 6, 2, 4>>
DayOfWeek(date) ==
  LET y == IF date.month < 2 THEN date.year - 1 ELSE date.year
  IN  (y + (y \div 4) - (y \div 100) + (y \div 400)
       + MonthKeys[date.month + 1] + date.date) % 7

\* date.getUTCDay() of a Date made at local midnight: east of UTC that
\* instant still belongs to the day before
getUTCDay(date, zone) ==
  IF zone = "east" THEN (DayOfWeek(date) + 6) % 7 ELSE DayOfWeek(date)

getMonthStartDay(month, year, zone) ==
  LET gregorianDate == toGregorian(EthiopianDate(1, month, year))
      utcDay == getUTCDay(gregorianDate, zone)
  IN  ((IF utcDay = 0 THEN 7 ELSE utcDay) % 7) + 1

(***************************************************************************)
(* Names and formatting.  A character outside ASCII is written as the      *)
(* letter u and its code point, so every character is still one element    *)
(* of the sequence.                                                        *)
(***************************************************************************)
ETHIOPIAN_MONTHS ==
  <<<<"u1218", "u1235", "u12a8", "u1228", "u121d">>,
    <<"u1325", "u1245", "u121d", "u1275">>,
    <<"u1205", "u12f3", "u122d">>,
    <<"u1273", "u1205", "u1233", "u1235">>,
    <<"u1325", "u122d">>,
    <<"u12e8", "u12ab", "u1272", "u1275">>,
    <<"u1218", "u130b", "u1262", "u1275">>,
    <<"u121a", "u12eb", "u12da", "u12eb">>,
    <<"u130d", "u1295", "u1266", "u1275">>,
    <<"u1230", "u1294">>,
    <<"u1210", "u121d", "u120c">>,
    <<"u1290", "u1200", "u1234">>,
    <<"u1333", "u1309", "u121c">>>>

ETHIOPIAN_DAYS ==
  <<<<"u1230", "u129e">>,
    <<"u121b", "u12ad", "u1230", "u129e">>,
    <<"u1228", "u1261", "u12d5">>,
    <<"u1210", "u1219", "u1235">>,
    <<"u12d3", "u122d", "u1265">>,
    <<"u1245", "u12f3", "u121c">>,
    <<"u12a5", "u1201", "u12f5">>>>

ENGLISH_MONTHS ==
  <<<<"J", "a", "n", "u", "a", "r", "y">>,
    <<"F", "e", "b", "r", "u", "a", "r", "y">>,
    <<"M", "a", "r", "c", "h">>,
    <<"A", "p", "r", "i", "l">>,
    <<"M", "a", "y">>,
    <<"J", "u", "n", "e">>,
    <<"J", "u", "l", "y">>,
    <<"A", "u", "g", "u", "s", "t">>,
    <<"S", "e", "p", "t", "e", "m", "b", "e", "r">>,
    <<"O", "c", "t", "o", "b", "e", "r">>,
    <<"N", "o", "v", "e", "m", "b", "e", "r">>,
    <<"D", "e", "c", "e", "m", "b", "e", "r">>>>

ENGLISH_DAYS ==
  <<<<"M", "o", "n", "d", "a", "y">>,
    <<"T", "u", "e", "s", "d", "a", "y">>,
    <<"W", "e", "d", "n", "e", "s", "d", "a", "y">>,
    <<"T", "h", "u", "r", "s", "d", "a", "y">>,
    <<"F", "r", "i", "d", "a", "y">>,
    <<"S", "a", "t", "u", "r", "d", "a", "y">>,
    <<"S", "u", "n", "d", "a", "y">>>>

Locales == {"AMH", "EN"}

\* `${array[index]}` for a 0-based index: past the ends the element is
\* undefined, which a template literal and String.replace write out
UndefinedText == <<"u", "n", "d", "e", "f", "i", "n", "e", "d">>
ElementText(array, index) ==
  IF index >= 0 /\ index < Len(array) THEN array[index + 1] ELSE UndefinedText

\* EthiopianDate.toString() and toShortString()
EthiopianDateToString(e) ==
  NumberToString(e.Day) \o <<" ">>
  \o ElementText(ETHIOPIAN_MONTHS, e.Month - 1) \o <<" ">>
  \o NumberToString(e.Year)
toShortString(e) ==
  NumberToString(e.Day) \o <<"/">> \o NumberToString(e.Month) \o <<"/">>
  \o NumberToString(e.Year)

\* getEthiopianMonthName without the "|| 12" that turns 0 into December
getEthiopianMonthName_NoTwelve(monthNumber, locale) ==
  IF monthNumber > 0 /\ monthNumber <= 13
  THEN IF locale = "AMH" THEN ETHIOPIAN_MONTHS[monthNumber]
       ELSE IF monthNumber = 13
       THEN <<"S", "e", "p", "t", "e", "m", "b", "e", "r">>
       ELSE LET gregorianMonthNumber == JsMod(monthNumber + 8, 12)
            IN  ElementText(ENGLISH_MONTHS, gregorianMonthNumber - 1)
  ELSE <<>>

getEthiopianMonthName(monthNumber, locale) ==
  IF monthNumber > 0 /\ monthNumber <= 13
  THEN IF locale = "AMH" THEN ETHIOPIAN_MONTHS[monthNumber]
       ELSE IF monthNumber = 13
       THEN <<"S", "e", "p", "t", "e", "m", "b", "e", "r">>
       ELSE LET remainder == JsMod(monthNumber + 8, 12)
                gregorianMonthNumber == IF remainder = 0 THEN 12 ELSE remainder
            IN  ElementText(ENGLISH_MONTHS, gregorianMonthNumber - 1)
  ELSE <<>>

getEthiopianDayName(dayNumber, locale) ==
  IF dayNumber >= 1 /\ dayNumber <= 7
  THEN IF locale = "AMH" THEN ETHIOPIAN_DAYS[dayNumber]
       ELSE ENGLISH_DAYS[dayNumber]
  ELSE <<>>

\* formatEthiopianDate(gregorianDate, format, locale); a null gregorianDate
\* is Undefined here
formatEthiopianDate(gregorianDate, format, locale) ==
  IF ~IsDate(gregorianDate) THEN <<>>
  ELSE
  LET e == toEthiopian(gregorianDate)
      amharic == ElementText(ETHIOPIAN_MONTHS, e.Month - 1)
      english == getEthiopianMonthName(e.Month, "EN")
  IN  CASE format = "short" -> toShortString(e)
        [] format = "month" ->
             IF locale = "AMH"
             THEN amharic \o <<" ">> \o NumberToString(e.Year)
             ELSE english \o <<" ">> \o NumberToString(e.Year)
        [] format = "day" ->
             IF locale = "AMH"
             THEN NumberToString(e.Day) \o <<" ">> \o amharic
             ELSE NumberToString(e.Day) \o <<" ">> \o english
        [] OTHER ->
             IF locale = "AMH"
             THEN EthiopianDateToString(e)
             ELSE NumberToString(e.Day) \o <<" ">> \o english \o <<" ">>
                  \o NumberToString(e.Year)

\* text.replace(pattern, replacement) for a string pattern: the first
\* occurrence only
Replace(text, pattern, replacement) ==
  LET hits == {i \in 1..(Len(text) - Len(pattern) + 1) :
                 SubSeq(text, i, i + Len(pattern) - 1) = pattern}
  IN  IF hits = {} THEN text
      ELSE LET i == CHOOSE h \in hits : \A k \in hits : h <= k
           IN  SubSeq(text, 1, i - 1) \o replacement
               \o SubSeq(text, i + Len(pattern), Len(text))

\* gregorianMonthMap of format and toDateString
gregorianMonthMap == <<8, 9, 10, 11, 0, 1, 2, 3, 4, 5, 6, 7, 8>>
\* ENGLISH_MONTHS[gregorianMonthMap[month - 1]]
MappedMonthName(month) ==
  IF month >= 1 /\ month <= Len(gregorianMonthMap)
  THEN ElementText(ENGLISH_MONTHS, gregorianMonthMap[month])
  ELSE UndefinedText

\* the tokens of a pattern, in the order format replaces them
Tokens == <<"YYYY", "MMM", "MM", "DD", "D", "E", "d">>
TokenText(token) ==
  CASE token = "YYYY" -> <<"Y", "Y", "Y", "Y">>
    [] token = "MMM" -> <<"M", "M", "M">>
    [] token = "MM" -> <<"M", "M">>
    [] token = "DD" -> <<"D", "D">>
    [] token = "D" -> <<"D">>
    [] token = "E" -> <<"E">>
    [] token = "d" -> <<"d">>

\* the second argument of the replace call of a token
ReplacementOf(token, e, locale, zone) ==
  CASE token = "YYYY" -> NumberToString(e.Year)
    [] token = "MMM" ->
         LET monthNames == IF locale = "EN" THEN <<MappedMonthName(e.Month)>>
                           ELSE ETHIOPIAN_MONTHS
         IN  monthNames[1]
    [] token = "MM" -> PadStart(NumberToString(e.Month), 2)
    [] token = "DD" -> PadStart(NumberToString(e.Day), 2)
    [] token = "D" -> NumberToString(e.Day)
    [] token = "E" ->
         IF locale = "EN" THEN <<"E", ".", "C", ".">>
         ELSE <<"u12d3", ".", "u121d">>
    [] token = "d" ->
         getEthiopianDayName(getMonthStartDay(e.Month, e.Year, zone), locale)

\* the chain of replace calls from the i-th token on
RECURSIVE ReplaceFrom(_, _, _, _, _)
ReplaceFrom(text, i, e, locale, zone) ==
  IF i > Len(Tokens) THEN text
  ELSE ReplaceFrom(Replace(text, TokenText(Tokens[i]),
                           ReplacementOf(Tokens[i], e, locale, zone)),
                   i + 1, e, locale, zone)

\* EthiopianDateConverter.format(pattern, locale) of the converter of e, on a
\* host in time zone zone
format(e, pattern, locale, zone) == ReplaceFrom(pattern, 1, e, locale, zone)

\* EthiopianDateConverter.toDateString(locale)
toDateString(e, locale) ==
  LET monthName == IF locale = "EN" THEN MappedMonthName(e.Month)
                   ELSE ElementText(ETHIOPIAN_MONTHS, e.Month - 1)
  IN  monthName \o <<" ">> \o NumberToString(e.Day) \o <<",", " ">>
      \o NumberToString(e.Year)

(***************************************************************************)
(* The caller.                                                             *)
(***************************************************************************)
VARIABLES
  pc,             \* "start", or the call (chain of calls) that has returned
  ethiopianDate,  \* the EtDate the caller starts from
  gregorianDate,  \* the Date passed to toEthiopian
  amount,         \* the daysToAdd / yearsToAdd passed
  secondDate,     \* the second EtDate passed to compareEthiopianDates
  prev,           \* in a chain of two calls, what the first call returned
  ret,            \* what the last call returned, or the Error it threw
  args,           \* the arguments of a call that takes values of any type
  timeZone,       \* where the host's clock stands: "west" of, at or "east"
                  \* of "UTC"
  today,          \* the local day that new Date() gave the call
  console,        \* what console.error has been given
  \* the EthiopianDatePicker component
  disabled,               \* the disabled prop
  selectedDate,           \* the selectedDate prop: a Date or Null
  onDateChange,           \* the calls the onDateChange prop has received
  isOpen,                 \* useState: whether the popover is shown
  currentEthiopianMonth,  \* useState: the EtDate of the month displayed
  selectedDateState,      \* useState: the Date selected, or Null
  event                   \* the handler or effect that ran last

\* what the calls on an EtDate neither read nor write
host == <<args, timeZone, today, console>>

\* the state of the date picker, which the calls above leave alone
picker == <<disabled, selectedDate, onDateChange, isOpen,
            currentEthiopianMonth, selectedDateState, event>>

vars == <<pc, ethiopianDate, gregorianDate, amount, secondDate, prev, ret,
          args, timeZone, today, console, picker>>

\* null
Null == [null |-> TRUE]

\* no date picker is mounted
NoPicker ==
  /\ disabled = FALSE
  /\ selectedDate = Null
  /\ onDateChange = [count |-> 0, last |-> Undefined]
  /\ isOpen = FALSE
  /\ currentEthiopianMonth = Undefined
  /\ selectedDateState = Null
  /\ event = "none"

Init ==
  /\ pc = "start"
  /\ ethiopianDate \in EtInputs \cup NewYearDays
  /\ gregorianDate = Undefined
  /\ amount = 0
  /\ secondDate = Undefined
  /\ prev = Undefined
  /\ ret = Undefined
  /\ args = <<>>
  /\ timeZone = "UTC"
  /\ today = Undefined
  /\ console = <<>>
  /\ NoPicker

\* toGregorian(ethiopianDate)
ToGregorian ==
  /\ pc = "start"
  /\ pc' = "toGregorian"
  /\ ret' = toGregorian(ethiopianDate)
  /\ UNCHANGED <<ethiopianDate, gregorianDate, amount, secondDate, prev, host>>
  /\ UNCHANGED picker

\* toEthiopian(toGregorian(ethiopianDate))
ToGregorianToEthiopian ==
  /\ pc = "toGregorian"
  /\ pc' = "toGregorian.toEthiopian"
  /\ prev' = ret
  /\ ret' = toEthiopian(ret)
  /\ UNCHANGED <<ethiopianDate, gregorianDate, amount, secondDate, host>>
  /\ UNCHANGED picker

\* the Date arguments tried for the start date: the Gregorian day that has
\* the start date's month and day numbers, eight years on, where that is a
\* day of the Gregorian calendar
GregorianInputs(e) ==
  IF e.Month >= 1 /\ e.Month <= 12 /\ e.Day >= 1
     /\ e.Day <= getGregorianMonthLength(e.Month, e.Year + 8)
  THEN {NewDate(e.Year + 8, e.Month - 1, e.Day)}
  ELSE {}

\* toEthiopian(g)
ToEthiopian ==
  /\ pc = "start"
  /\ \E g \in GregorianInputs(ethiopianDate) :
       /\ gregorianDate' = g
       /\ ret' = toEthiopian(g)
  /\ pc' = "toEthiopian"
  /\ UNCHANGED <<ethiopianDate, amount, secondDate, prev, host>>
  /\ UNCHANGED picker

\* toGregorian(toEthiopian(g))
ToEthiopianToGregorian ==
  /\ pc = "toEthiopian"
  /\ pc' = "toEthiopian.toGregorian"
  /\ prev' = ret
  /\ ret' = toGregorian(ret)
  /\ UNCHANGED <<ethiopianDate, gregorianDate, amount, secondDate, host>>
  /\ UNCHANGED picker

\* isValidEthiopianDate(ethiopianDate)
IsValid ==
  /\ pc = "start"
  /\ pc' = "isValidEthiopianDate"
  /\ ret' = isValidEthiopianDate(ethiopianDate)
  /\ UNCHANGED <<ethiopianDate, gregorianDate, amount, secondDate, prev, host>>
  /\ UNCHANGED picker

\* addDaysToEthiopianDate(ethiopianDate, n)
AddDays ==
  /\ pc = "start"
  /\ \E n \in Amounts :
       /\ amount' = n
       /\ ret' = addDaysToEthiopianDate(ethiopianDate, n)
  /\ pc' = "addDays"
  /\ UNCHANGED <<ethiopianDate, gregorianDate, secondDate, prev, host>>
  /\ UNCHANGED picker

\* addDaysToEthiopianDate(addDaysToEthiopianDate(ethiopianDate, n), -n)
AddDaysBack ==
  /\ pc = "addDays"
  /\ ~Thrown(ret)
  /\ pc' = "addDays.addDays"
  /\ prev' = ret
  /\ ret' = addDaysToEthiopianDate(ret, -amount)
  /\ UNCHANGED <<ethiopianDate, gregorianDate, amount, secondDate, host>>
  /\ UNCHANGED picker

\* addYearsToEthiopianDate(ethiopianDate, n)
AddYears ==
  /\ pc = "start"
  /\ \E n \in Amounts :
       /\ amount' = n
       /\ ret' = addYearsToEthiopianDate(ethiopianDate, n)
  /\ pc' = "addYears"
  /\ UNCHANGED <<ethiopianDate, gregorianDate, secondDate, prev, host>>
  /\ UNCHANGED picker

\* the second dates a start date is compared with: itself, its neighbours in
\* each field and in two fields moved against each other, and the days on
\* both sides of the turn of the year
Offsets ==
  {<<0, 0, 0>>, <<1, 0, 0>>, <<-1, 0, 0>>, <<0, 1, 0>>, <<0, -1, 0>>,
   <<0, 0, 1>>, <<0, 0, -1>>, <<-1, 1, 0>>, <<1, -1, 0>>, <<0, -1, 1>>,
   <<0, 1, -1>>, <<-1, 0, 1>>, <<1, 0, -1>>}
SecondDates(e) ==
  {EthiopianDate(e.Day + o[1], e.Month + o[2], e.Year + o[3]) : o \in Offsets}
  \cup {EthiopianDate(1, 1, e.Year + 1), EthiopianDate(5, 13, e.Year - 1)}

\* compareEthiopianDates(ethiopianDate, b)
Compare ==
  /\ pc = "start"
  /\ \E b \in SecondDates(ethiopianDate) :
       /\ secondDate' = b
       /\ ret' = compareEthiopianDates(ethiopianDate, b)
  /\ pc' = "compare"
  /\ UNCHANGED <<ethiopianDate, gregorianDate, amount, prev, host>>
  /\ UNCHANGED picker

\* getGregorianDayNumber(gregorianDateFromDayNo(n)) for the day number n that
\* toGregorian(ethiopianDate) passed to gregorianDateFromDayNo
ToGregorianDayNumber ==
  /\ pc = "toGregorian"
  /\ pc' = "toGregorian.getGregorianDayNumber"
  /\ prev' = ret
  /\ ret' = getGregorianDayNumber(ret)
  /\ UNCHANGED <<ethiopianDate, gregorianDate, amount, secondDate, host>>
  /\ UNCHANGED picker

\* isEthiopianLeapYear(ethiopianDate.Year)
IsLeapYear ==
  /\ pc = "start"
  /\ pc' = "isEthiopianLeapYear"
  /\ ret' = isEthiopianLeapYear(ethiopianDate.Year)
  /\ UNCHANGED <<ethiopianDate, gregorianDate, amount, secondDate, prev, host>>
  /\ UNCHANGED picker

\* the sum of getEthiopianMonthLength(m, year) over the months 1..month
RECURSIVE SumMonthLengths(_, _)
SumMonthLengths(month, year) ==
  IF month = 0 THEN 0
  ELSE SumMonthLengths(month - 1, year) + getEthiopianMonthLength(month, year)

\* getEthiopianMonthLength called for each of the 13 months of
\* ethiopianDate.Year and the lengths added up
YearLength ==
  /\ pc = "start"
  /\ pc' = "yearLength"
  /\ ret' = SumMonthLengths(13, ethiopianDate.Year)
  /\ UNCHANGED <<ethiopianDate, gregorianDate, amount, secondDate, prev, host>>
  /\ UNCHANGED picker

\* values that are no Date, as a caller without type checking passes them:
\* the ISO text of the day, a number, nothing
NonDates(e) ==
  {StringValue(IsoText(e.Year + 8, e.Month, e.Day)),
   NumberValue(e.Year + 8),
   Undefined}

\* getGregorianDayNumber(v) for a Date or another value
GetGregorianDayNumber ==
  /\ pc = "start"
  /\ \E v \in GregorianInputs(ethiopianDate) \cup NonDates(ethiopianDate) :
       /\ args' = <<v>>
       /\ ret' = getGregorianDayNumber(v)
       /\ console' = console \o getGregorianDayNumberLog(v)
  /\ pc' = "getGregorianDayNumber"
  /\ UNCHANGED <<ethiopianDate, gregorianDate, amount, secondDate, prev,
                 timeZone, today>>
  /\ UNCHANGED picker

\* toEthiopian(v) for a value that is no Date
ToEthiopianOfNonDate ==
  /\ pc = "start"
  /\ \E v \in NonDates(ethiopianDate) :
       /\ args' = <<v>>
       /\ ret' = toEthiopian(v)
       /\ console' = console \o getGregorianDayNumberLog(v)
  /\ pc' = "toEthiopian(nonDate)"
  /\ UNCHANGED <<ethiopianDate, gregorianDate, amount, secondDate, prev,
                 timeZone, today>>
  /\ UNCHANGED picker

\* the argument lists of dateConverter.toGregorian made of the date: texts
\* (plain, padded, two pieces, four pieces, a letter for the month, an empty
\* month), numbers (three, the year alone, year and month), a converter,
\* nothing
ToGregorianCalls(e) ==
  LET y == NumberToString(e.Year)
      m == NumberToString(e.Month)
      d == NumberToString(e.Day)
      dash == <<"-">>
      text(chars) == <<StringValue(chars), Undefined, Undefined>>
  IN  {text(y \o dash \o m \o dash \o d),
       text(IsoText(e.Year, e.Month, e.Day)),
       text(y \o dash \o m),
       text(y \o dash \o m \o dash \o d \o dash \o d),
       text(y \o dash \o <<"a">> \o dash \o d),
       text(y \o dash \o dash \o d),
       <<NumberValue(e.Year), NumberValue(e.Month), NumberValue(e.Day)>>,
       <<NumberValue(e.Year), Undefined, Undefined>>,
       <<NumberValue(e.Year), NumberValue(e.Month), Undefined>>,
       <<Converter(e), Undefined, Undefined>>,
       <<Undefined, Undefined, Undefined>>}

\* dateConverter.toGregorian(...)
DateConverterToGregorian ==
  /\ pc = "start"
  /\ \E a \in ToGregorianCalls(ethiopianDate) :
       /\ args' = a
       /\ ret' = dateConverterToGregorian(a[1], a[2], a[3])
  /\ pc' = "dateConverter.toGregorian"
  /\ UNCHANGED <<ethiopianDate, gregorianDate, amount, secondDate, prev,
                 timeZone, today, console>>
  /\ UNCHANGED picker

\* the days the host's clock may read
Todays == {NewDate(2025, 6, 17), NewDate(2026, 10, 4)}

\* a timestamp is counted here in whole days since 1 January 1970 (a day is
\* 86400000 of the milliseconds the program counts), to stay within TLC's
\* integers
Timestamp(date) ==
  getGregorianDayNumber(date) - getGregorianDayNumber(NewDate(1970, 0, 1))

\* dateConverter.toEthiopian(v) for a Date, the ISO text of a day or the
\* timestamp of a day; the zone matters to a text only, and the clock is read
\* only in the constructor's last branch
DateConverterToEthiopian ==
  /\ pc = "start"
  /\ \E g \in GregorianInputs(ethiopianDate) :
       \E v \in {g, StringValue(IsoText(g.year, g.month + 1, g.date)),
                 NumberValue(Timestamp(g))} :
         \E z \in IF IsString(v) THEN TimeZones ELSE {"UTC"} :
           \E now \in IF IsNumber(v) THEN Todays ELSE {Undefined} :
             /\ args' = <<v>>
             /\ timeZone' = z
             /\ today' = now
             /\ ret' = dateConverterToEthiopian(v, z, now)
  /\ pc' = "dateConverter.toEthiopian"
  /\ UNCHANGED <<ethiopianDate, gregorianDate, amount, secondDate, prev,
                 console>>
  /\ UNCHANGED picker

\* createEthiopianDate(n) for the day number of the date and for its place
\* in the cycle of 1461 days
CreateEthiopianDate ==
  /\ pc = "start"
  /\ \E n \in {getDayNumber(ethiopianDate),
                JsMod(getDayNumber(ethiopianDate), 1461)} :
       /\ args' = <<NumberValue(n)>>
       /\ ret' = createEthiopianDate(n)
  /\ pc' = "createEthiopianDate"
  /\ UNCHANGED <<ethiopianDate, gregorianDate, amount, secondDate, prev,
                 timeZone, today, console>>
  /\ UNCHANGED picker

\* dateConverter.toGregorian("Y-M-D"), then dateConverter.toGregorian(Y, M, D)
DateConverterToGregorianBothForms ==
  /\ pc = "start"
  /\ LET e == ethiopianDate
         text == NumberToString(e.Year) \o <<"-">> \o NumberToString(e.Month)
                 \o <<"-">> \o NumberToString(e.Day)
     IN  /\ args' = <<StringValue(text), NumberValue(e.Year),
                      NumberValue(e.Month), NumberValue(e.Day)>>
         /\ prev' = dateConverterToGregorian(StringValue(text), Undefined,
                                             Undefined)
         /\ ret' = dateConverterToGregorian(NumberValue(e.Year),
                                            NumberValue(e.Month),
                                            NumberValue(e.Day))
  /\ pc' = "dateConverter.toGregorian(text),(numbers)"
  /\ UNCHANGED <<ethiopianDate, gregorianDate, amount, secondDate,
                 timeZone, today, console>>
  /\ UNCHANGED picker

\* getMonthStartDay(ethiopianDate.Month, ethiopianDate.Year) on a host in
\* some time zone
GetMonthStartDay ==
  /\ pc = "start"
  /\ \E z \in TimeZones :
       /\ timeZone' = z
       /\ ret' = getMonthStartDay(ethiopianDate.Month, ethiopianDate.Year, z)
  /\ pc' = "getMonthStartDay"
  /\ UNCHANGED <<ethiopianDate, gregorianDate, amount, secondDate, prev,
                 args, today, console>>
  /\ UNCHANGED picker

Next ==
  \/ ToGregorian
  \/ ToGregorianToEthiopian
  \/ ToEthiopian
  \/ ToEthiopianToGregorian
  \/ IsValid
  \/ AddDays
  \/ AddDaysBack
  \/ AddYears
  \/ Compare
  \/ GetMonthStartDay
  \/ ToGregorianDayNumber
  \/ IsLeapYear
  \/ YearLength
  \/ GetGregorianDayNumber
  \/ ToEthiopianOfNonDate
  \/ DateConverterToGregorian
  \/ DateConverterToEthiopian
  \/ CreateEthiopianDate
  \/ DateConverterToGregorianBothForms

Spec == Init /\ [][Next]_vars

(***************************************************************************)
(* Round trips of the conversions.                                         *)
(***************************************************************************)
\* C1: for every Ethiopian date e that isValidEthiopianDate accepts,
\* toEthiopian(toGregorian(e)) has the Day, Month and Year of e.
RoundTripEthiopian ==
  (pc = "toGregorian.toEthiopian" /\ isValidEthiopianDate(ethiopianDate))
    => /\ ret.Day = ethiopianDate.Day
       /\ ret.Month = ethiopianDate.Month
       /\ ret.Year = ethiopianDate.Year

\* the sixth epagomenal day of a leap year has made the round trip
RoundTripEthiopianWitness ==
  /\ pc = "toGregorian.toEthiopian"
  /\ isValidEthiopianDate(ethiopianDate)
  /\ ethiopianDate = EthiopianDate(6, 13, 2019)
  /\ prev = NewDate(2027, 8, 11)
  /\ ret = ethiopianDate

\* C2: for every Gregorian day g whose Ethiopian year is in 1000..3000,
\* toGregorian(toEthiopian(g)) is the year, month and day of g.
RoundTripGregorian ==
  (pc = "toEthiopian.toGregorian" /\ prev.Year >= 1000 /\ prev.Year <= 3000)
    => /\ ret.year = gregorianDate.year
       /\ ret.month = gregorianDate.month
       /\ ret.date = gregorianDate.date

\* 31 December 2000, the last day of a 400-year period, has made the round trip
RoundTripGregorianWitness ==
  /\ pc = "toEthiopian.toGregorian"
  /\ gregorianDate = NewDate(2000, 11, 31)
  /\ prev.Year = 1993
  /\ ret = gregorianDate

AddDaysAddsN ==
  (pc = "addDays" /\ isValidEthiopianDate(ethiopianDate))
    => /\ ~Thrown(ret)
       /\ getDayNumber(ret) = getDayNumber(ethiopianDate) + amount
       /\ (amount = 0 => ret = ethiopianDate)

\* C5: for a valid e and an n for which addDaysToEthiopianDate(e, n) is
\* valid, adding n days and then -n days gives e back.
AddDaysThereAndBack ==
  (/\ pc = "addDays.addDays"
   /\ isValidEthiopianDate(ethiopianDate)
   /\ isValidEthiopianDate(prev))
    => ret = ethiopianDate

\* C6 as stated: for every valid e and every n the date that
\* addYearsToEthiopianDate returns satisfies isValidEthiopianDate.
AddYearsAlwaysValid ==
  (pc = "addYears" /\ isValidEthiopianDate(ethiopianDate))
    => (~Thrown(ret) /\ isValidEthiopianDate(ret))

\* C6, amended: for every valid e and every n the date that
\* addYearsToEthiopianDate returns has a Month in 1..13 and a Day in
\* 1..getEthiopianMonthLength(Month, Year), and it satisfies
\* isValidEthiopianDate exactly when e.Year + n is in 1000..3000.
AddYearsValidInRange ==
  (pc = "addYears" /\ isValidEthiopianDate(ethiopianDate))
    => /\ ~Thrown(ret)
       /\ ret.Month >= 1 /\ ret.Month <= 13
       /\ ret.Day >= 1
       /\ ret.Day <= getEthiopianMonthLength(ret.Month, ret.Year)
       /\ isValidEthiopianDate(ret)
            <=> (ethiopianDate.Year + amount >= 1000
                 /\ ethiopianDate.Year + amount <= 3000)

\* a year added to the sixth epagomenal day of 2999 gives the last valid year
AddYearsValidWitness ==
  /\ pc = "addYears"
  /\ ethiopianDate = EthiopianDate(6, 13, 2999)
  /\ amount = 1
  /\ ret = EthiopianDate(5, 13, 3000)

\* C7: addYearsToEthiopianDate(e, n) for a valid e has Year e.Year + n and
\* the Month and Day of e, except that Day 6 of Month 13 becomes Day 5 when
\* e.Year + n is not a leap year.
AddYearsResult ==
  (pc = "addYears" /\ isValidEthiopianDate(ethiopianDate))
    => /\ ~Thrown(ret)
       /\ ret.Year = ethiopianDate.Year + amount
       /\ ret.Month = ethiopianDate.Month
       /\ ret.Day =
            IF /\ ethiopianDate.Month = 13
               /\ ethiopianDate.Day = 6
               /\ ~isEthiopianLeapYear(ethiopianDate.Year + amount)
            THEN 5
            ELSE ethiopianDate.Day

\* a year added to the sixth epagomenal day of the leap year 2019
AddYearsResultWitness ==
  /\ pc = "addYears"
  /\ ethiopianDate = EthiopianDate(6, 13, 2019)
  /\ amount = 1
  /\ ret = EthiopianDate(5, 13, 2020)

(***************************************************************************)
(* Validation.                                                             *)
(***************************************************************************)
\* s occurs in t as a run of consecutive characters
Contains(t, s) ==
  \E i \in 1..(Len(t) - Len(s) + 1) : SubSeq(t, i, i + Len(s) - 1) = s

\* C8: addDaysToEthiopianDate and addYearsToEthiopianDate throw, and return
\* no date, when the argument fails isValidEthiopianDate, and the message of
\* the error contains the Day, the Month and the Year of the argument.
InvalidInputThrows ==
  (pc \in {"addDays", "addYears"} /\ ~isValidEthiopianDate(ethiopianDate))
    => /\ Thrown(ret)
       /\ Contains(ret.message,
                   NumberToString(ethiopianDate.Day) \o <<"-">>
                   \o NumberToString(ethiopianDate.Month) \o <<"-">>
                   \o NumberToString(ethiopianDate.Year))

\* addDaysToEthiopianDate has thrown for Day 31 of Month 1 of 2016
InvalidInputThrowsWitness ==
  /\ pc = "addDays"
  /\ ethiopianDate = EthiopianDate(31, 1, 2016)
  /\ Thrown(ret)
  /\ Contains(ret.message, <<"3", "1", "-", "1", "-", "2", "0", "1", "6">>)

\* C9: isValidEthiopianDate(d) is false exactly when the Year is outside
\* 1000..3000, or the Month is outside 1..13, or the Day is less than 1 or
\* more than getEthiopianMonthLength(Month, Year).
IsValidExactly ==
  pc = "isValidEthiopianDate"
    => (ret = FALSE
          <=> \/ ethiopianDate.Year \notin 1000..3000
              \/ ethiopianDate.Month \notin 1..13
              \/ ethiopianDate.Day < 1
              \/ ethiopianDate.Day
                   > getEthiopianMonthLength(ethiopianDate.Month,
                                             ethiopianDate.Year))

\* the sixth epagomenal day of a leap year has been accepted
IsValidExactlyWitness ==
  /\ pc = "isValidEthiopianDate"
  /\ ethiopianDate = EthiopianDate(6, 13, 2019)
  /\ ret = TRUE

(***************************************************************************)
(* Ordering.                                                               *)
(***************************************************************************)
Sign(x) == IF x < 0 THEN -1 ELSE IF x > 0 THEN 1 ELSE 0

\* C10: for valid dates a and b, compareEthiopianDates(a, b) is -1, 0 or 1
\* and is the sign of getDayNumber(a) - getDayNumber(b); it is 0 only for
\* equal dates, antisymmetric and transitive.
CompareIsDayNumberOrder ==
  (/\ pc = "compare"
   /\ isValidEthiopianDate(ethiopianDate)
   /\ isValidEthiopianDate(secondDate))
    => /\ ret \in {-1, 0, 1}
       /\ ret = Sign(getDayNumber(ethiopianDate) - getDayNumber(secondDate))
       /\ (ret = 0 <=> ethiopianDate = secondDate)
       /\ compareEthiopianDates(secondDate, ethiopianDate) = -ret
       /\ \A c \in SecondDates(secondDate) :
            (/\ isValidEthiopianDate(c)
             /\ ret = -1
             /\ compareEthiopianDates(secondDate, c) = -1)
              => compareEthiopianDates(ethiopianDate, c) = -1

\* the last day of a leap year has been compared with the first of the next
CompareWitness ==
  /\ pc = "compare"
  /\ ethiopianDate = EthiopianDate(6, 13, 2019)
  /\ secondDate = EthiopianDate(1, 1, 2020)
  /\ ret = -1

(***************************************************************************)
(* Weekday of the first day of a month.                                    *)
(***************************************************************************)
\* C11: on a host at UTC, getMonthStartDay(month, year) is in 1..7 and
\* numbers the weekday of the first day of the month Monday = 1, ...,
\* Sunday = 7.
MonthStartDayMondayFirst ==
  (/\ pc = "getMonthStartDay"
   /\ timeZone = "UTC"
   /\ ethiopianDate.Month \in 1..13)
    => /\ ret \in 1..7
       /\ LET first == toGregorian(EthiopianDate(1, ethiopianDate.Month,
                                                 ethiopianDate.Year))
          IN  ret = (IF DayOfWeek(first) = 0 THEN 7 ELSE DayOfWeek(first))

(***************************************************************************)
(* Gregorian day numbers.                                                  *)
(***************************************************************************)
\* a remainder of n is zero at the 400-year, 100-year, 4-year or single-year
\* level of the decomposition
ZeroRemainder(n) ==
  LET r400 == n % 146097
      r100 == r400 - Min(r400 \div 36524, 3) * 36524
      r4 == r100 % 1461
      r1 == r4 - Min(r4 \div 365, 3) * 365
  IN  r400 = 0 \/ r100 = 0 \/ r4 = 0 \/ r1 = 0

NewYearInSeptember ==
  (/\ pc = "toGregorian"
   /\ ethiopianDate.Day = 1
   /\ ethiopianDate.Month = 1
   /\ ethiopianDate.Year \in 1900..2090)
    => /\ ret.year = ethiopianDate.Year + 7
       /\ ret.month = 8
       /\ ret.date = IF (ethiopianDate.Year - 1) % 4 = 3 THEN 12 ELSE 11

\* the first day of 2016 has been converted, to 12 September 2023
NewYearInSeptemberWitness ==
  /\ pc = "toGregorian"
  /\ ethiopianDate = EthiopianDate(1, 1, 2016)
  /\ ret = NewDate(2023, 8, 12)

YearLengthIsDayNumberStep ==
  pc = "yearLength"
    => LET y == ethiopianDate.Year
       IN  /\ ret = IF y % 4 = 3 THEN 366 ELSE 365
           /\ \A m \in 1..12 : getEthiopianMonthLength(m, y) = 30
           /\ getEthiopianMonthLength(13, y) = IF y % 4 = 3 THEN 6 ELSE 5
           /\ ret = getDayNumber(EthiopianDate(1, 1, y + 1))
                    - getDayNumber(EthiopianDate(1, 1, y))

\* the months of the leap year 2019 have been added up to 366 days
YearLengthWitness ==
  /\ pc = "yearLength"
  /\ ethiopianDate.Year = 2019
  /\ ret = 366

(***************************************************************************)
(* Arguments that are no Date.                                             *)
(***************************************************************************)
\* C16: getGregorianDayNumber called with a value that is no Date does not
\* throw: it gives console.error a diagnostic and returns 0.
NonDateGivesZero ==
  (pc = "getGregorianDayNumber" /\ ~IsDate(args[1]))
    => /\ ret = 0
       /\ Len(console) = 1
       /\ console[1].value = args[1]

\* getGregorianDayNumber has been called with the text "2025-07-17"
NonDateGivesZeroWitness ==
  /\ pc = "getGregorianDayNumber"
  /\ args = <<StringValue(<<"2", "0", "2", "5", "-", "0", "7", "-", "1", "7">>)>>
  /\ ret = 0
  /\ Len(console) = 1

\* C17: toEthiopian called with a date string instead of a Date results in
\* an error and returns no Ethiopian date.
StringToEthiopianThrows ==
  (pc = "toEthiopian(nonDate)" /\ IsString(args[1])) => Thrown(ret)

(***************************************************************************)
(* dateConverter.toGregorian.                                              *)
(***************************************************************************)
\* a text that is not exactly three numeric pieces between dashes
Malformed(chars) ==
  LET tokens == Split(chars)
  IN  \/ Len(tokens) # 3
      \/ \E i \in 1..Len(tokens) : tokens[i] = <<>> \/ Number(tokens[i]).nan

\* C18: dateConverter.toGregorian given a malformed text (not exactly three
\* numeric pieces between dashes: fewer, more, or one not numeric) throws an
\* error whose message contains the text.
MalformedStringThrows ==
  (pc = "dateConverter.toGregorian" /\ IsString(args[1])
     /\ Malformed(args[1].str))
    => (Thrown(ret) /\ Contains(ret.message, args[1].str))

\* an argument list that is no converter, no text and no three numbers
Unsupported(a) ==
  /\ ~IsConverter(a[1])
  /\ ~IsString(a[1])
  /\ ~(IsNumber(a[1]) /\ IsNumber(a[2]) /\ IsNumber(a[3]))

\* C19: dateConverter.toGregorian throws the invalid-parameters error, and
\* returns no Date, when its arguments are no converter, no text and no three
\* numbers.
UnsupportedShapeThrows ==
  (pc = "dateConverter.toGregorian" /\ Unsupported(args))
    => (Thrown(ret) /\ ret.message = InvalidParametersMessage)

\* dateConverter.toGregorian(2016) has thrown
UnsupportedShapeWitness ==
  /\ pc = "dateConverter.toGregorian"
  /\ args = <<NumberValue(2016), Undefined, Undefined>>
  /\ Thrown(ret)
  /\ ret.message = InvalidParametersMessage

(***************************************************************************)
(* dateConverter.toEthiopian.                                              *)
(***************************************************************************)
\* the Gregorian day a timestamp denotes
DateOfTimestamp(days) ==
  gregorianDateFromDayNo(getGregorianDayNumber(NewDate(1970, 0, 1)) + days)

\* C20: dateConverter.toEthiopian given a timestamp returns the Ethiopian
\* date of the Gregorian day the timestamp denotes, whatever day the clock
\* reads.
TimestampIsConverted ==
  (pc = "dateConverter.toEthiopian" /\ IsNumber(args[1]))
    => ret.ethiopianDate = toEthiopian(DateOfTimestamp(args[1].num))

(***************************************************************************)
(* createEthiopianDate and getDayNumber.                                   *)
(***************************************************************************)
\* C25: for a day number n >= 0 createEthiopianDate returns a date of the
\* calendar (Month in 1..13, Day in 1..getEthiopianMonthLength) whose
\* getDayNumber is n, and it is Day 6, Month 13 of the leap year
\* 4 * floor(n / 1461) + 3 exactly when n mod 1461 = 1460.
CreateInvertsDayNumber ==
  pc = "createEthiopianDate"
    => LET n == args[1].num
       IN  /\ n >= 0
           /\ ret.Month \in 1..13
           /\ ret.Day \in 1..getEthiopianMonthLength(ret.Month, ret.Year)
           /\ getDayNumber(ret) = n
           /\ (ret.Day = 6 /\ ret.Month = 13) <=> (n % 1461 = 1460)
           /\ (n % 1461 = 1460)
                => /\ ret.Year = 4 * (n \div 1461) + 3
                   /\ isEthiopianLeapYear(ret.Year)

\* createEthiopianDate has been given the last day of a cycle of 1461 days
CreateInvertsDayNumberWitness ==
  /\ pc = "createEthiopianDate"
  /\ args[1].num % 1461 = 1460
  /\ args[1].num > 1461
  /\ ret.Day = 6
  /\ ret.Month = 13

(***************************************************************************)
(* The two forms of dateConverter.toGregorian.                             *)
(***************************************************************************)
\* C28: for positive Y, M, D dateConverter.toGregorian("Y-M-D") and
\* dateConverter.toGregorian(Y, M, D) both throw or both return the same
\* Date.
BothFormsAgree ==
  (pc = "dateConverter.toGregorian(text),(numbers)"
     /\ ethiopianDate.Day >= 1 /\ ethiopianDate.Month >= 1)
    => /\ Thrown(prev) <=> Thrown(ret)
       /\ ~Thrown(ret) => prev = ret

(***************************************************************************)
(* The caller of the formatting functions.                                 *)
(***************************************************************************)
FormatYears == 2015..(2014 + YearSpan)
FormatInputs == [Day : 0..31, Month : 0..14, Year : FormatYears]

\* a pattern is written as its pieces: tokens, and the text between them
Token(name) == [token |-> name]
Literal(chars) == [text |-> chars]
IsToken(piece) == "token" \in DOMAIN piece
Patterns ==
  {<<Token("MMM")>>,
   <<Token("MMM"), Literal(<<" ">>), Token("D")>>,
   <<Token("D"), Literal(<<" ">>), Token("MMM")>>,
   <<Token("MMM"), Literal(<<" ">>), Token("DD"), Literal(<<",", " ">>),
     Token("YYYY")>>,
   <<Token("YYYY"), Literal(<<"-">>), Token("MM"), Literal(<<"-">>),
     Token("DD")>>,
   <<Token("d"), Literal(<<",", " ">>), Token("MMM"), Literal(<<" ">>),
     Token("D"), Literal(<<" ">>), Token("YYYY"), Literal(<<" ">>),
     Token("E")>>}
HasToken(pieces, name) ==
  \E i \in 1..Len(pieces) : IsToken(pieces[i]) /\ pieces[i].token = name
\* the pattern string the pieces spell
RECURSIVE PatternText(_)
PatternText(pieces) ==
  IF pieces = <<>> THEN <<>>
  ELSE (IF IsToken(Head(pieces)) THEN TokenText(Head(pieces).token)
        ELSE Head(pieces).text) \o PatternText(Tail(pieces))

FormatInit ==
  /\ pc = "start"
  /\ ethiopianDate \in FormatInputs
  /\ gregorianDate = Undefined
  /\ amount = 0
  /\ secondDate = Undefined
  /\ prev = Undefined
  /\ ret = Undefined
  /\ args = <<>>
  /\ timeZone = "UTC"
  /\ today = Undefined
  /\ console = <<>>
  /\ NoPicker

\* new EthiopianDateConverter(Year, Month, Day).format(pattern, locale); the
\* zone matters only to the weekday token
Format ==
  /\ pc = "start"
  /\ \E pieces \in Patterns, locale \in Locales :
       \E z \in IF HasToken(pieces, "d") THEN TimeZones ELSE {"UTC"} :
         /\ args' = <<pieces, locale>>
         /\ timeZone' = z
         /\ ret' = StringValue(format(ethiopianDate, PatternText(pieces),
                                      locale, z))
  /\ pc' = "format"
  /\ UNCHANGED <<ethiopianDate, gregorianDate, amount, secondDate, prev,
                 today, console>>
  /\ UNCHANGED picker

\* new EthiopianDateConverter(Year, Month, Day).toDateString(locale)
ToDateString ==
  /\ pc = "start"
  /\ \E locale \in Locales :
       /\ args' = <<locale>>
       /\ ret' = StringValue(toDateString(ethiopianDate, locale))
  /\ pc' = "toDateString"
  /\ UNCHANGED <<ethiopianDate, gregorianDate, amount, secondDate, prev,
                 timeZone, today, console>>
  /\ UNCHANGED picker

\* formatEthiopianDate(g, fmt, locale) for the Gregorian day g made of the
\* numbers of the date
FormatEthiopianDate ==
  /\ pc = "start"
  /\ \E g \in GregorianInputs(ethiopianDate),
        fmt \in {"long", "short", "month", "day"}, locale \in Locales :
       /\ gregorianDate' = g
       /\ args' = <<fmt, locale>>
       /\ ret' = StringValue(formatEthiopianDate(g, fmt, locale))
  /\ pc' = "formatEthiopianDate"
  /\ UNCHANGED <<ethiopianDate, amount, secondDate, prev, timeZone, today,
                 console>>
  /\ UNCHANGED picker

\* getEthiopianMonthName(ethiopianDate.Month, locale)
GetEthiopianMonthName ==
  /\ pc = "start"
  /\ \E locale \in Locales :
       /\ args' = <<NumberValue(ethiopianDate.Month), locale>>
       /\ ret' = StringValue(getEthiopianMonthName(ethiopianDate.Month,
                                                   locale))
  /\ pc' = "getEthiopianMonthName"
  /\ UNCHANGED <<ethiopianDate, gregorianDate, amount, secondDate, prev,
                 timeZone, today, console>>
  /\ UNCHANGED picker

FormatNext ==
  \/ Format
  \/ ToDateString
  \/ FormatEthiopianDate
  \/ GetEthiopianMonthName

FormatSpec == FormatInit /\ [][FormatNext]_vars

(***************************************************************************)
(* Month names.                                                            *)
(***************************************************************************)
IsPrefix(s, t) == Len(s) <= Len(t) /\ SubSeq(t, 1, Len(s)) = s

\* the name of a month 1..13 in a locale
OwnMonthName(month, locale) ==
  IF locale = "AMH" THEN ETHIOPIAN_MONTHS[month] ELSE MappedMonthName(month)

\* C21: format replaces MMM with the name of the date's own month in the
\* locale, for months 1..13: ETHIOPIAN_MONTHS[Month - 1] in Amharic, the
\* mapped Gregorian month name in English, the name toDateString begins
\* with.
FormatNamesOwnMonth ==
  (pc = "format" /\ HasToken(args[1], "MMM") /\ ethiopianDate.Month \in 1..13)
    => LET name == OwnMonthName(ethiopianDate.Month, args[2])
       IN  /\ Contains(ret.str, name)
           /\ IsPrefix(name, toDateString(ethiopianDate, args[2]))

\* C22: formatEthiopianDate(date, "long", "AMH") is the Day, the Amharic
\* month name, the Year and the era suffix, with a space between them.
LongAmharicHasEra ==
  (pc = "formatEthiopianDate" /\ args = <<"long", "AMH">>)
    => LET e == toEthiopian(gregorianDate)
       IN  ret.str = NumberToString(e.Day) \o <<" ">>
                     \o ETHIOPIAN_MONTHS[e.Month] \o <<" ">>
                     \o NumberToString(e.Year) \o <<" ">>
                     \o <<"u12d3", ".", "u121d">>

\* the Gregorian month (1..12) whose name labels each Ethiopian month:
\* September to August, and September again
LabelOrder == <<9, 10, 11, 12, 1, 2, 3, 4, 5, 6, 7, 8, 9>>

RECURSIVE Substituted(_, _, _, _)
Substituted(pieces, e, locale, zone) ==
  IF pieces = <<>> THEN <<>>
  ELSE (IF IsToken(Head(pieces))
        THEN ReplacementOf(Head(pieces).token, e, locale, zone)
        ELSE Head(pieces).text) \o Substituted(Tail(pieces), e, locale, zone)

\* C29: for a pattern in which each token occurs at most once, separated by
\* other characters, the result of format is the pattern with each token
\* replaced by its text: no inserted text is rewritten by a later
\* replacement.
InsertedTextIntact ==
  (pc = "format" /\ ethiopianDate.Month \in 1..13)
    => ret.str = Substituted(args[1], ethiopianDate, args[2], timeZone)

(***************************************************************************)
(* The EthiopianDatePicker component (components/EthiopianDatePicker.tsx). *)
(* Its state is what useState holds; its inputs are the props the parent   *)
(* renders it with and the clicks of the user.                             *)
(***************************************************************************)
\* the user stops after this many calls of onDateChange
MaxCalls == 2
\* the years the user pages through
PickerYears == 2019..(2016 + YearSpan)
\* the day the host's clock reads while the picker is mounted
PickerToday == NewDate(2026, 10, 4)
\* the Dates the parent passes as selectedDate
PropDates == {NewDate(2027, 8, 11)}
\* the cells of the grid the user clicks
Cells == {1, 42}

\* what the calls of the conversion functions neither read nor write here
engine == <<pc, ethiopianDate, gregorianDate, amount, secondDate, prev, ret,
            args, console>>

\* the argument of setCurrentEthiopianMonth in handlePreviousMonth
handlePreviousMonth(current) ==
  LET newMonth == IF current.Month = 1 THEN 13 ELSE current.Month - 1
      newYear == IF current.Month = 1 THEN current.Year - 1 ELSE current.Year
  IN  [Day |-> 1, Month |-> newMonth, Year |-> newYear]

\* handleNextMonth going on to a month 14
handleNextMonth_NoWrap(current) ==
  [Day |-> 1, Month |-> current.Month + 1, Year |-> current.Year]

\* the argument of setCurrentEthiopianMonth in handleNextMonth
handleNextMonth(current) ==
  LET newMonth == IF current.Month = 13 THEN 1 ELSE current.Month + 1
      newYear == IF current.Month = 13 THEN current.Year + 1 ELSE current.Year
  IN  [Day |-> 1, Month |-> newMonth, Year |-> newYear]

\* subDays / addDays of date-fns on a local calendar day
addDays(date, n) == gregorianDateFromDayNo(getGregorianDayNumber(date) + n)

\* getCalendarDays with the start of the grid moved forward, not back
getCalendarDays_StartAfter(current, zone) ==
  LET firstDayOfEthiopianMonth ==
        toGregorian(EthiopianDate(1, current.Month, current.Year))
      firstDayOfWeek == getMonthStartDay(current.Month, current.Year, zone)
      calendarStart == addDays(firstDayOfEthiopianMonth, firstDayOfWeek - 1)
  IN  [i \in 1..42 |-> addDays(calendarStart, i - 1)]

\* getCalendarDays() for the month displayed, on a host in time zone zone:
\* eachDayOfInterval from calendarStart to calendarStart + 41
getCalendarDays(current, zone) ==
  LET firstDayOfEthiopianMonth ==
        toGregorian(EthiopianDate(1, current.Month, current.Year))
      firstDayOfWeek == getMonthStartDay(current.Month, current.Year, zone)
      calendarStart == addDays(firstDayOfEthiopianMonth, -(firstDayOfWeek - 1))
  IN  [i \in 1..42 |-> addDays(calendarStart, i - 1)]

\* isCurrentEthiopianMonth of a cell of the grid
isCurrentEthiopianMonth(day, current) ==
  LET ethiopianDay == toEthiopian(day)
  IN  ethiopianDay.Month = current.Month /\ ethiopianDay.Year = current.Year

\* onDateChange?.(date): the number of calls and the argument of the last
Called(calls, date) == [count |-> calls.count + 1, last |-> date]

\* the component after it has mounted and its effects have run
PickerInit ==
  /\ pc = "picker"
  /\ ethiopianDate = Undefined
  /\ gregorianDate = Undefined
  /\ amount = 0
  /\ secondDate = Undefined
  /\ prev = Undefined
  /\ ret = Undefined
  /\ args = <<>>
  /\ console = <<>>
  /\ timeZone \in TimeZones
  /\ today = PickerToday
  /\ disabled \in BOOLEAN
  /\ selectedDate \in {Null} \cup PropDates
  /\ onDateChange = [count |-> 0, last |-> Undefined]
  /\ isOpen = FALSE
  /\ currentEthiopianMonth =
       IF IsDate(selectedDate) THEN toEthiopian(selectedDate)
       ELSE toEthiopian(today)
  /\ selectedDateState = selectedDate
  /\ event = "mount"

\* the parent renders the picker with the other value of disabled
SetDisabled ==
  /\ disabled' = ~disabled
  /\ event' = "render"
  /\ UNCHANGED <<engine, timeZone, today, selectedDate, onDateChange, isOpen,
                 currentEthiopianMonth, selectedDateState>>

\* the parent renders the picker with another selectedDate and the effect on
\* selectedDate runs
SetSelectedDate ==
  /\ \E d \in ({Null} \cup PropDates) \ {selectedDate} :
       /\ selectedDate' = d
       /\ selectedDateState' = d
       /\ currentEthiopianMonth' =
            IF IsDate(d) THEN toEthiopian(d) ELSE currentEthiopianMonth
  /\ event' = "useEffect"
  /\ UNCHANGED <<engine, timeZone, today, disabled, onDateChange, isOpen>>

\* a click on the input field
ClickInput ==
  /\ isOpen' = IF ~disabled THEN ~isOpen ELSE isOpen
  /\ event' = "onClick"
  /\ UNCHANGED <<engine, timeZone, today, disabled, selectedDate,
                 onDateChange, currentEthiopianMonth, selectedDateState>>

\* a mousedown outside the popover
HandleClickOutside ==
  /\ isOpen
  /\ isOpen' = FALSE
  /\ event' = "handleClickOutside"
  /\ UNCHANGED <<engine, timeZone, today, disabled, selectedDate,
                 onDateChange, currentEthiopianMonth, selectedDateState>>

\* a click on the button of the previous month
HandlePreviousMonth ==
  /\ isOpen
  /\ handlePreviousMonth(currentEthiopianMonth).Year \in PickerYears
  /\ currentEthiopianMonth' = handlePreviousMonth(currentEthiopianMonth)
  /\ event' = "handlePreviousMonth"
  /\ UNCHANGED <<engine, timeZone, today, disabled, selectedDate,
                 onDateChange, isOpen, selectedDateState>>

\* a click on the button of the next month
HandleNextMonth ==
  /\ isOpen
  /\ handleNextMonth(currentEthiopianMonth).Year \in PickerYears
  /\ currentEthiopianMonth' = handleNextMonth(currentEthiopianMonth)
  /\ event' = "handleNextMonth"
  /\ UNCHANGED <<engine, timeZone, today, disabled, selectedDate,
                 onDateChange, isOpen, selectedDateState>>

\* a click on a cell of the grid
HandleDateSelect ==
  /\ isOpen
  /\ onDateChange.count < MaxCalls
  /\ \E i \in Cells :
       LET date == getCalendarDays(currentEthiopianMonth, timeZone)[i]
       IN  /\ selectedDateState' = date
           /\ onDateChange' = Called(onDateChange, date)
  /\ isOpen' = FALSE
  /\ event' = "handleDateSelect"
  /\ UNCHANGED <<engine, timeZone, today, disabled, selectedDate,
                 currentEthiopianMonth>>

\* a click on the button of today
HandleToday ==
  /\ isOpen
  /\ onDateChange.count < MaxCalls
  /\ selectedDateState' = today
  /\ currentEthiopianMonth' = toEthiopian(today)
  /\ isOpen' = FALSE
  /\ onDateChange' = Called(onDateChange, today)
  /\ event' = "handleToday"
  /\ UNCHANGED <<engine, timeZone, today, disabled, selectedDate>>

\* a click on the button that clears
HandleClear ==
  /\ isOpen
  /\ onDateChange.count < MaxCalls
  /\ selectedDateState' = Null
  /\ isOpen' = FALSE
  /\ onDateChange' = Called(onDateChange, Null)
  /\ event' = "handleClear"
  /\ UNCHANGED <<engine, timeZone, today, disabled, selectedDate,
                 currentEthiopianMonth>>

PickerNext ==
  \/ SetDisabled
  \/ SetSelectedDate
  \/ ClickInput
  \/ HandleClickOutside
  \/ HandlePreviousMonth
  \/ HandleNextMonth
  \/ HandleDateSelect
  \/ HandleToday
  \/ HandleClear

PickerSpec == PickerInit /\ [][PickerNext]_vars

\* the picker of a user who only looks: opens and closes the popover, pages
\* through the months and returns to today, while the parent changes
\* selectedDate
CalendarNext ==
  \/ SetSelectedDate
  \/ ClickInput
  \/ HandleClickOutside
  \/ HandlePreviousMonth
  \/ HandleNextMonth
  \/ HandleToday

CalendarSpec == PickerInit /\ [][CalendarNext]_vars

(***************************************************************************)
(* The date picker.                                                        *)
(***************************************************************************)
\* the handlers a click of the user runs
UserEvents ==
  {"onClick", "handleClickOutside", "handlePreviousMonth", "handleNextMonth",
   "handleDateSelect", "handleToday", "handleClear"}

\* C24: while disabled is true, no click of the user opens the popover,
\* changes the selected date or calls onDateChange.
DisabledBlocksUser ==
  [][(disabled /\ event' \in UserEvents)
       => /\ isOpen' => isOpen
          /\ selectedDateState' = selectedDateState
          /\ onDateChange' = onDateChange]_vars

\* C26: a previous-month or next-month click leaves Month in 1..13 and
\* Day 1; next from month 13 gives month 1 of Year + 1 and previous from
\* month 1 gives month 13 of Year - 1; previous after next, and next after
\* previous, give the Month and Year back.
MonthNavigation ==
  [][LET before == currentEthiopianMonth
         after == currentEthiopianMonth'
     IN  /\ (event' = "handleNextMonth")
              => /\ after.Day = 1
                 /\ after.Month \in 1..13
                 /\ IF before.Month = 13
                    THEN after.Month = 1 /\ after.Year = before.Year + 1
                    ELSE after.Month = before.Month + 1
                         /\ after.Year = before.Year
                 /\ handlePreviousMonth(after).Month = before.Month
                 /\ handlePreviousMonth(after).Year = before.Year
         /\ (event' = "handlePreviousMonth")
              => /\ after.Day = 1
                 /\ after.Month \in 1..13
                 /\ IF before.Month = 1
                    THEN after.Month = 13 /\ after.Year = before.Year - 1
                    ELSE after.Month = before.Month - 1
                         /\ after.Year = before.Year
                 /\ handleNextMonth(after).Month = before.Month
                 /\ handleNextMonth(after).Year = before.Year]_vars

\* the next-month button has taken the display from month 13 into the year
\* after
MonthNavigationWitness ==
  /\ event = "handleNextMonth"
  /\ currentEthiopianMonth = [Day |-> 1, Month |-> 1, Year |-> 2020]

\* the first n cells of a grid, as a sequence
RECURSIVE CellsOf(_, _)
CellsOf(grid, n) == IF n = 0 THEN <<>> ELSE Append(CellsOf(grid, n - 1), grid[n])
\* the Ethiopian dates of a sequence of days
RECURSIVE EthiopianDays(_)
EthiopianDays(days) ==
  IF days = <<>> THEN <<>>
  ELSE <<toEthiopian(Head(days))>> \o EthiopianDays(Tail(days))
\* the day numbers of a sequence of days
RECURSIVE DayNumbers(_)
DayNumbers(days) ==
  IF days = <<>> THEN <<>>
  ELSE <<getGregorianDayNumber(Head(days))>> \o DayNumbers(Tail(days))

\* C27: the grid of the displayed month is 42 consecutive Gregorian days
\* that hold every day 1..getEthiopianMonthLength(Month, Year) of the month
\* exactly once, and the cells marked as of the current month are exactly
\* those days.
GridHoldsMonth ==
  LET current == currentEthiopianMonth
      grid == getCalendarDays(current, timeZone)
      days == CellsOf(grid, 42)
      numbers == DayNumbers(days)
      ethiopian == EthiopianDays(days)
      length == getEthiopianMonthLength(current.Month, current.Year)
      marked == {i \in 1..42 : isCurrentEthiopianMonth(days[i], current)}
  IN  /\ current.Year \in 1000..3000
      /\ DOMAIN grid = 1..42
      /\ \A i \in 1..41 : numbers[i + 1] = numbers[i] + 1
      /\ \A d \in 1..length :
           Cardinality({i \in 1..42 :
                          ethiopian[i]
                            = EthiopianDate(d, current.Month, current.Year)})
             = 1
      /\ Cardinality(marked) = length
      /\ {ethiopian[i].Day : i \in marked} = 1..length

\* the sixth day of month 13 of a leap year is in the grid displayed
GridHoldsMonthWitness ==
  /\ event = "handleNextMonth"
  /\ currentEthiopianMonth.Month = 13
  /\ currentEthiopianMonth.Year = 2019
  /\ \E i \in 1..42 :
       toEthiopian(getCalendarDays(currentEthiopianMonth, timeZone)[i])
         = EthiopianDate(6, 13, 2019)

====
